---- MODULE Spec2Model ----
(***************************************************************************)
(* Recursive-descent / precedence-climbing parser of                      *)
(* src/src/frontend/parser.rs, as a machine with an explicit call stack.   *)
(* One step runs the function on top of the stack up to its next call or   *)
(* its return.  A tail call (a function whose value is the value of its    *)
(* last call) replaces the caller's frame by the callee's.                 *)
(***************************************************************************)
EXTENDS Integers, Sequences, FiniteSets, TLC

VARIABLES tokens, pos, entry, stack, ret, status

vars == <<tokens, pos, entry, stack, ret, status>>

(* ------------------------------ bounds -------------------------------- *)
MaxLen == 4
MaxOps == 2
MaxArgs == 2
MaxParams == 2

(* ------------------------------ tokens -------------------------------- *)
Identifier(s) == [kind |-> "Identifier", name |-> s]
Number(n) == [kind |-> "Number", value |-> n]
Operator(o) == [kind |-> "Operator", op |-> o]
OpenParen == [kind |-> "OpenParen"]
ClosedParen == [kind |-> "ClosedParen"]
Comma == [kind |-> "Comma"]
Semicolon == [kind |-> "Semicolon"]
FuncDef == [kind |-> "FuncDef"]

OP_PRECEDENCE == [Plus |-> 20, Minus |-> 20, Mult |-> 40, Div |-> 40, Modulo |-> 40]

\* operator symbols the token source can deliver: those of the table and
\* one the table has no entry for
Ops == (DOMAIN OP_PRECEDENCE) \cup {"Other"}

(* ------------------------------- errors -------------------------------- *)
UnexpectedToken(t) == [error |-> "UnexpectedToken", token |-> t]
UnexpectedEOI == [error |-> "UnexpectedEOI"]
ExpectedToken(t) == [error |-> "ExpectedToken", token |-> t]

Ok(v) == [tag |-> "Ok", val |-> v]
Err(e) == [tag |-> "Err", err |-> e]
NoRet == [tag |-> "None"]

(* --------------------------------- AST --------------------------------- *)
NumberExpr(v) == [node |-> "NumberExpr", value |-> v]
VariableExpr(n) == [node |-> "VariableExpr", name |-> n]
BinaryExpr(o, l, r) == [node |-> "BinaryExpr", op |-> o, left |-> l, right |-> r]
CallExpr(n, a) == [node |-> "CallExpr", name |-> n, args |-> a]
Prototype(n, a) == [node |-> "Prototype", name |-> n, args |-> a]
Function(p, b) == [node |-> "Function", proto |-> p, body |-> b]

(* ---------------------------- token cursor ----------------------------- *)
None == [kind |-> "None"]

\* the token k places ahead of the cursor (k = 1 is Peekable::peek)
TokenAt(k) == IF pos + k <= Len(tokens) THEN tokens[pos + k] ELSE None

Peek == TokenAt(1)

\* the cursor after k calls of next(): next() at the end leaves it there
Advance(k) == IF pos + k <= Len(tokens) THEN pos + k ELSE Len(tokens)

(* ----------------------------- call stack ------------------------------ *)
Top == stack[Len(stack)]

Pop == SubSeq(stack, 1, Len(stack) - 1)

Running(f, p) == status = "running" /\ stack # <<>> /\ Top.fn = f /\ Top.pc = p

\* push a callee over the caller, which waits at program point p
Call(callerFrame, calleeFrame) ==
    /\ stack' = Pop \o <<callerFrame, calleeFrame>>
    /\ ret' = NoRet
    /\ status' = "running"

\* replace the running frame by the frame of its tail call
TailCall(calleeFrame) ==
    /\ stack' = Pop \o <<calleeFrame>>
    /\ ret' = NoRet
    /\ status' = "running"

Return(v) ==
    /\ stack' = Pop
    /\ ret' = v
    /\ status' = IF Len(stack) = 1 THEN "returned" ELSE "running"

Panic(site) ==
    /\ stack' = stack
    /\ ret' = ret
    /\ status' = site

Frame(f) == [fn |-> f, pc |-> "start"]

BinopFrame(lhs, expr_prec) ==
    [fn |-> "parse_binop_rhs", pc |-> "loop", lhs |-> lhs, expr_prec |-> expr_prec]

(* ------------------------------ parse_extern --------------------------- *)
parse_extern ==
    /\ Running("parse_extern", "start")
    /\ pos' = Advance(1)
    /\ TailCall(Frame("parse_prototype"))
    /\ UNCHANGED <<tokens, entry>>

(* ----------------------------- parse_prototype ------------------------- *)
RECURSIVE IdentifierRunReversed(_)
\* parse_prototype with args.insert(0, ..) for args.push(..)
IdentifierRunReversed(k) ==
    IF TokenAt(k).kind = "Identifier"
    THEN IdentifierRunReversed(k + 1) \o <<TokenAt(k).name>>
    ELSE <<>>

RECURSIVE IdentifierRun(_)
\* the names of the identifier tokens from k places ahead on
IdentifierRun(k) ==
    IF TokenAt(k).kind = "Identifier"
    THEN <<TokenAt(k).name>> \o IdentifierRun(k + 1)
    ELSE <<>>

parse_prototype ==
    /\ Running("parse_prototype", "start")
    /\ IF Peek.kind # "Identifier"
       THEN /\ pos' = Advance(1)
            /\ Return(Err(ExpectedToken(Identifier(""))))
       ELSE IF TokenAt(2).kind # "OpenParen"
       THEN /\ pos' = Advance(2)
            /\ Return(Err(ExpectedToken(OpenParen)))
       ELSE LET args == IdentifierRun(3)
                k == 3 + Len(args)
            IN  /\ pos' = Advance(k)
                /\ IF TokenAt(k).kind = "ClosedParen"
                   THEN Return(Ok(Prototype(Peek.name, args)))
                   ELSE Return(Err(ExpectedToken(ClosedParen)))
    /\ UNCHANGED <<tokens, entry>>

(* ---------------------------- parse_definition ------------------------- *)
parse_definition ==
    /\ Running("parse_definition", "start")
    /\ pos' = Advance(1)
    /\ Call([Top EXCEPT !.pc = "proto"], Frame("parse_prototype"))
    /\ UNCHANGED <<tokens, entry>>

parse_definition_resume ==
    /\ status = "running" /\ stack # <<>>
    /\ Top.fn = "parse_definition" /\ Top.pc \in {"proto", "body"}
    /\ IF ret.tag = "Err"
       THEN Return(ret)
       ELSE IF Top.pc = "proto"
       THEN Call([fn |-> "parse_definition", pc |-> "body", proto |-> ret.val],
                 Frame("parse_expression"))
       ELSE Return(Ok(Function(Top.proto, ret.val)))
    /\ UNCHANGED <<tokens, entry, pos>>

(* -------------------------- parse_top_level_expr ----------------------- *)
parse_top_level_expr ==
    /\ Running("parse_top_level_expr", "start")
    /\ Call([Top EXCEPT !.pc = "expr"], Frame("parse_expression"))
    /\ UNCHANGED <<tokens, entry, pos>>

parse_top_level_expr_resume ==
    /\ Running("parse_top_level_expr", "expr")
    /\ IF ret.tag = "Err"
       THEN Return(ret)
       ELSE Return(Ok(Function(Prototype("<anonymous>", <<>>), ret.val)))
    /\ UNCHANGED <<tokens, entry, pos>>

(* ------------------------------ parse_primary -------------------------- *)
parse_primary ==
    /\ Running("parse_primary", "start")
    /\ CASE Peek.kind = "Identifier" -> TailCall(Frame("parse_identifier_expr"))
         [] Peek.kind = "Number" -> TailCall(Frame("parse_number_expr"))
         [] Peek.kind = "OpenParen" -> TailCall(Frame("parse_paren_expr"))
         [] Peek.kind = "None" -> Return(Err(UnexpectedEOI))
         [] OTHER -> Return(Err(UnexpectedToken(Peek)))
    /\ UNCHANGED <<tokens, entry, pos>>

(* ---------------------------- parse_number_expr ------------------------ *)
parse_number_expr ==
    /\ Running("parse_number_expr", "start")
    /\ pos' = Advance(1)
    /\ IF Peek.kind = "Number"
       THEN Return(Ok(NumberExpr(Peek.value)))
       ELSE Panic("panic: parse_number_expr")
    /\ UNCHANGED <<tokens, entry>>

(* -------------------------- parse_identifier_expr ---------------------- *)
\* parse_identifier_expr with arglist.insert(0, ..) for arglist.push(..)
PushArgFront(arglist, arg) == <<arg>> \o arglist

\* the argument list after one more parsed argument
PushArg(arglist, arg) == Append(arglist, arg)

\* parse_identifier_expr without the branch that consumes a comma
SkipCommaNever == pos

\* the cursor after an argument: a comma that follows it is consumed
SkipComma == IF Peek.kind = "Comma" THEN Advance(1) ELSE pos

parse_identifier_expr ==
    /\ Running("parse_identifier_expr", "start")
    /\ IF Peek.kind # "Identifier"
       THEN /\ pos' = Advance(1)
            /\ Panic("panic: parse_identifier_expr")
       ELSE IF TokenAt(2).kind = "OpenParen"
       THEN /\ pos' = Advance(2)
            /\ stack' = Pop \o <<[fn |-> "parse_identifier_expr", pc |-> "loop",
                                  name |-> Peek.name, arglist |-> <<>>]>>
            /\ UNCHANGED <<ret, status>>
       ELSE /\ pos' = Advance(1)
            /\ Return(Ok(VariableExpr(Peek.name)))
    /\ UNCHANGED <<tokens, entry>>

parse_identifier_expr_loop ==
    /\ Running("parse_identifier_expr", "loop")
    /\ IF Peek.kind = "ClosedParen"
       THEN /\ pos' = Advance(1)
            /\ Return(Ok(CallExpr(Top.name, Top.arglist)))
       ELSE /\ pos' = pos
            /\ Call([Top EXCEPT !.pc = "arg"], Frame("parse_expression"))
    /\ UNCHANGED <<tokens, entry>>

parse_identifier_expr_resume ==
    /\ Running("parse_identifier_expr", "arg")
    /\ IF ret.tag = "Err"
       THEN /\ pos' = pos
            /\ Return(ret)
       ELSE /\ pos' = SkipComma
            /\ stack' = Pop \o <<[Top EXCEPT !.pc = "loop",
                                             !.arglist = PushArg(@, ret.val)]>>
            /\ UNCHANGED <<ret, status>>
    /\ UNCHANGED <<tokens, entry>>

(* ---------------------------- parse_paren_expr ------------------------- *)
\* parse_paren_expr that returns the inner result whatever token follows it
ParenCloseLax(expr, tok) ==
    IF tok.kind = "None" THEN Err(UnexpectedEOI) ELSE expr

\* the value of parse_paren_expr from the inner result and the token that
\* next() delivers after it
ParenClose(expr, tok) ==
    CASE tok.kind = "ClosedParen" -> expr
      [] tok.kind = "None" -> Err(UnexpectedEOI)
      [] OTHER -> Err(UnexpectedToken(tok))

parse_paren_expr ==
    /\ Running("parse_paren_expr", "start")
    /\ pos' = Advance(1)
    /\ Call([Top EXCEPT !.pc = "close"], Frame("parse_expression"))
    /\ UNCHANGED <<tokens, entry>>

parse_paren_expr_resume ==
    /\ Running("parse_paren_expr", "close")
    /\ pos' = Advance(1)
    /\ Return(ParenClose(ret, Peek))
    /\ UNCHANGED <<tokens, entry>>

(* ---------------------------- parse_expression ------------------------- *)
parse_expression ==
    /\ Running("parse_expression", "start")
    /\ Call([Top EXCEPT !.pc = "lhs"], Frame("parse_primary"))
    /\ UNCHANGED <<tokens, entry, pos>>

parse_expression_resume ==
    /\ Running("parse_expression", "lhs")
    /\ IF ret.tag = "Err"
       THEN Return(ret)
       ELSE TailCall(BinopFrame(ret.val, 0))
    /\ UNCHANGED <<tokens, entry, pos>>

(* ------------------------- get_operator_precedence --------------------- *)
\* OP_PRECEDENCE[&operator] panics when the table has no entry for operator
IndexPanics(token) == token.kind = "Operator" /\ token.op \notin DOMAIN OP_PRECEDENCE

get_operator_precedence(token) ==
    IF token.kind = "Operator" THEN OP_PRECEDENCE[token.op] ELSE -1

(* ----------------------------- parse_binop_rhs ------------------------- *)
\* parse_binop_rhs that takes the end of the input for the end of the expression
BinopAtEOIOk(lhs) == Ok(lhs)

\* the value of parse_binop_rhs when peek() finds the input exhausted
BinopAtEOI(lhs) == Err(UnexpectedEOI)

\* parse_binop_rhs that builds the node with its operands exchanged
FoldSwapped(op, lhs, rhs) == BinaryExpr(op, rhs, lhs)

\* the new left-hand side of the climbing loop
Fold(op, lhs, rhs) == BinaryExpr(op, lhs, rhs)

parse_binop_rhs ==
    /\ Running("parse_binop_rhs", "loop")
    /\ IF Peek.kind = "None"
       THEN /\ pos' = pos
            /\ Return(BinopAtEOI(Top.lhs))
       ELSE IF IndexPanics(Peek)
       THEN /\ pos' = pos
            /\ Panic("panic: OP_PRECEDENCE index")
       ELSE LET tok_prec == get_operator_precedence(Peek) IN
            IF tok_prec < Top.expr_prec
            THEN /\ pos' = pos
                 /\ Return(Ok(Top.lhs))
            ELSE /\ pos' = Advance(1)
                 /\ IF Peek.kind = "Operator"
                    THEN Call([Top EXCEPT !.pc = "rhs"] @@
                                 [next_tok |-> Peek, tok_prec |-> tok_prec],
                              Frame("parse_primary"))
                    ELSE Panic("panic: Should be operator here!")
    /\ UNCHANGED <<tokens, entry>>

\* the frame of the loop with its next_tok, tok_prec and rhs dropped
NextIteration(lhs) == BinopFrame(lhs, Top.expr_prec)

parse_binop_rhs_resume ==
    /\ status = "running" /\ stack # <<>>
    /\ Top.fn = "parse_binop_rhs" /\ Top.pc \in {"rhs", "climb"}
    /\ IF ret.tag = "Err"
       THEN Return(ret)
       ELSE IF Top.pc = "rhs" /\ IndexPanics(Top.next_tok)
       THEN Panic("panic: OP_PRECEDENCE index")
       ELSE IF Top.pc = "rhs" /\ Top.tok_prec < get_operator_precedence(Top.next_tok)
       THEN Call([Top EXCEPT !.pc = "climb"],
                 BinopFrame(ret.val, Top.tok_prec + 1))
       ELSE /\ stack' = Pop \o <<NextIteration(Fold(Top.next_tok.op, Top.lhs, ret.val))>>
            /\ UNCHANGED <<ret, status>>
    /\ UNCHANGED <<tokens, entry, pos>>

(* -------------------------------- inputs ------------------------------- *)
Alphabet ==
    {Identifier("a"), Identifier("b"), Number(1),
     Operator("Plus"), Operator("Mult"), Operator("Other"),
     OpenParen, ClosedParen, Comma, Semicolon}

RECURSIVE SeqsUpTo(_, _)
SeqsUpTo(S, n) ==
    IF n = 0 THEN {<<>>}
    ELSE LET shorter == SeqsUpTo(S, n - 1)
         IN  shorter \cup {Append(s, t) : s \in shorter, t \in S}

\* every token sequence of at most MaxLen tokens
RawInputs == SeqsUpTo(Alphabet, MaxLen)

\* operator chains  p1 op1 p2 ... opk p(k+1)  of at most n operators
ChainPrimaries == {Identifier("a"), Number(1)}

TableOperators == {Operator(o) : o \in DOMAIN OP_PRECEDENCE}

Terminators == {Semicolon, Comma}

RECURSIVE Chains(_)
Chains(n) ==
    IF n = 0 THEN {<<p>> : p \in ChainPrimaries}
    ELSE LET shorter == Chains(n - 1)
         IN  shorter \cup {c \o <<o, p>> : c \in shorter, o \in TableOperators,
                                            p \in ChainPrimaries}

ChainInputs ==
    Chains(MaxOps) \cup {c \o <<t>> : c \in Chains(MaxOps), t \in Terminators}

\* expression trees and the token sequence each is written as, every
\* binary operand that is itself a binary expression in parentheses
ArgExprs ==
    {VariableExpr("a"), VariableExpr("b"), NumberExpr(1),
     BinaryExpr("Plus", VariableExpr("a"), NumberExpr(1)),
     BinaryExpr("Mult", BinaryExpr("Minus", NumberExpr(1), VariableExpr("a")),
                VariableExpr("b")),
     CallExpr("g", <<VariableExpr("b")>>)}

RECURSIVE TokensOf(_), ArgTokens(_, _)
TokensOf(e) ==
    LET Operand(x) == IF x.node = "BinaryExpr"
                      THEN <<OpenParen>> \o TokensOf(x) \o <<ClosedParen>>
                      ELSE TokensOf(x)
    IN  CASE e.node = "NumberExpr" -> <<Number(e.value)>>
          [] e.node = "VariableExpr" -> <<Identifier(e.name)>>
          [] e.node = "BinaryExpr" ->
                Operand(e.left) \o <<Operator(e.op)>> \o Operand(e.right)
          [] e.node = "CallExpr" ->
                <<Identifier(e.name), OpenParen>> \o ArgTokens(e.args, "commas")
                    \o <<ClosedParen>>

\* the arguments of a call written with a comma between two arguments
\* ("commas"), with nothing between them ("none"), or with a comma after
\* every argument ("trailing")
ArgTokens(args, mode) ==
    IF args = <<>> THEN <<>>
    ELSE TokensOf(Head(args))
         \o (IF mode = "trailing" \/ (mode = "commas" /\ Len(args) > 1)
             THEN <<Comma>> ELSE <<>>)
         \o ArgTokens(Tail(args), mode)

CommaModes == {"commas", "none", "trailing"}

CallTokens(f, args, mode) ==
    <<Identifier(f), OpenParen>> \o ArgTokens(args, mode) \o <<ClosedParen>>

ArgLists == SeqsUpTo(ArgExprs, MaxArgs)

Followers == {<<>>, <<Semicolon>>, <<FuncDef>>}

CallInputs ==
    {CallTokens("f", args, mode) \o rest :
        args \in ArgLists, mode \in CommaModes, rest \in Followers}

\* definitions  def f ( id1 ... idk ) body  with and without a token after
ParamLists == SeqsUpTo({"a", "b"}, MaxParams)

RECURSIVE IdentifierTokens(_)
IdentifierTokens(names) ==
    IF names = <<>> THEN <<>>
    ELSE <<Identifier(Head(names))>> \o IdentifierTokens(Tail(names))

DefTokens(name, params, body) ==
    <<FuncDef, Identifier(name), OpenParen>> \o IdentifierTokens(params)
        \o <<ClosedParen>> \o TokensOf(body)

DefInputs ==
    {DefTokens("f", params, body) \o rest :
        params \in ParamLists, body \in ArgExprs, rest \in Followers}

Inputs == RawInputs \cup ChainInputs \cup CallInputs \cup DefInputs

EntryPoints ==
    {"parse_extern", "parse_prototype", "parse_definition",
     "parse_top_level_expr", "parse_primary", "parse_expression"}

(* ----------------------------- specification --------------------------- *)
Init ==
    /\ tokens \in Inputs
    /\ entry \in EntryPoints
    /\ pos = 0
    /\ stack = <<Frame(entry)>>
    /\ ret = NoRet
    /\ status = "running"

Next ==
    \/ parse_extern
    \/ parse_prototype
    \/ parse_definition
    \/ parse_definition_resume
    \/ parse_top_level_expr
    \/ parse_top_level_expr_resume
    \/ parse_primary
    \/ parse_number_expr
    \/ parse_identifier_expr
    \/ parse_identifier_expr_loop
    \/ parse_identifier_expr_resume
    \/ parse_paren_expr
    \/ parse_paren_expr_resume
    \/ parse_expression
    \/ parse_expression_resume
    \/ parse_binop_rhs
    \/ parse_binop_rhs_resume

Spec == Init /\ [][Next]_vars

(* ------------------------- vocabulary of the claims -------------------- *)
Returned == status = "returned"

\* the i-th token of the input, None past its end
Tok(i) == IF i \in 1..Len(tokens) THEN tokens[i] ELSE None

IsPrimaryToken(t) == t.kind \in {"Identifier", "Number"}

IsTableOperator(t) == t.kind = "Operator" /\ t.op \in DOMAIN OP_PRECEDENCE

\* the tree of a one-token primary
Leaf(t) == IF t.kind = "Number" THEN NumberExpr(t.value) ELSE VariableExpr(t.name)

\* t ends the expression whose last token is prev: it is a token, it is no
\* operator and it does not open the argument list of prev
Terminates(prev, t) ==
    /\ t.kind \notin {"None", "Operator"}
    /\ ~(prev.kind = "Identifier" /\ t.kind = "OpenParen")

\* tokens is  p1 op1 p2 ... opk p(k+1) t  with one-token primaries, table
\* operators and a terminator t
IsTerminatedChain ==
    /\ Len(tokens) >= 2 /\ Len(tokens) % 2 = 0
    /\ \A i \in 1..(Len(tokens) - 1) :
          IF i % 2 = 1 THEN IsPrimaryToken(tokens[i]) ELSE IsTableOperator(tokens[i])
    /\ Terminates(tokens[Len(tokens) - 1], tokens[Len(tokens)])

RECURSIVE LeftFold(_)
\* the left fold of the chain made of the first 2k+1 tokens
LeftFold(k) ==
    IF k = 0 THEN Leaf(tokens[1])
    ELSE BinaryExpr(tokens[2 * k].op, LeftFold(k - 1), Leaf(tokens[2 * k + 1]))

(* C1: for tokens  x op1 y op2 z t  with primaries x, y, z, op1 in {+,-},   *)
(* op2 in {*,/,%} and a non-operator terminator t, parse_expression         *)
(* returns BinaryExpr(op1, x, BinaryExpr(op2, y, z)).                       *)
C1_TighterBindsDeeper ==
    (/\ entry = "parse_expression" /\ Returned
     /\ Len(tokens) = 6 /\ IsTerminatedChain
     /\ tokens[2].op \in {"Plus", "Minus"}
     /\ tokens[4].op \in {"Mult", "Div", "Modulo"})
    => ret = Ok(BinaryExpr(tokens[2].op, Leaf(tokens[1]),
                           BinaryExpr(tokens[4].op, Leaf(tokens[3]), Leaf(tokens[5]))))

(* C2: for a terminated chain in which no operator has a higher precedence  *)
(* than the operator before it, parse_expression returns the left fold of   *)
(* the chain and stops in front of the terminator.                          *)
NonIncreasingChain ==
    /\ IsTerminatedChain
    /\ \A i \in 1..(Len(tokens) \div 2 - 2) :
          OP_PRECEDENCE[tokens[2 * i + 2].op] <= OP_PRECEDENCE[tokens[2 * i].op]

C2_LeftFold ==
    (entry = "parse_expression" /\ Returned /\ NonIncreasingChain)
    => /\ ret = Ok(LeftFold(Len(tokens) \div 2 - 1))
       /\ pos = Len(tokens) - 1

\* a * 1 + a ;  has been parsed to  (a * 1) + a
C2_Witness ==
    /\ entry = "parse_expression" /\ Returned /\ NonIncreasingChain
    /\ tokens = <<Identifier("a"), Operator("Mult"), Number(1), Operator("Plus"),
                  Identifier("a"), Semicolon>>
    /\ ret = Ok(BinaryExpr("Plus",
                   BinaryExpr("Mult", VariableExpr("a"), NumberExpr(1)),
                   VariableExpr("a")))

\* no argument that ends in an identifier is followed by one that begins
\* with '(': written without a comma the two would read as a call
Separable(args) ==
    \A i \in 1..(Len(args) - 1) :
        LET this == TokensOf(args[i])
            next == TokensOf(args[i + 1])
        IN  ~(this[Len(this)].kind = "Identifier" /\ next[1].kind = "OpenParen")

\* the calls of the inputs: what follows the callee's name, the arguments
\* written there, how they are separated and how many tokens follow the ')'
CallCases ==
    {[tail |-> Tail(CallTokens("f", args, mode)) \o rest, args |-> args,
      mode |-> mode, separable |-> Separable(args), left |-> Len(rest)] :
        args \in ArgLists, mode \in CommaModes, rest \in Followers}

(* C3: parse_primary on  f ( e1 , ... , en )  returns CallExpr(f, [e1..en]) *)
(* with the arguments in source order and the cursor right after the ')';   *)
(* on an identifier not followed by '(' it returns VariableExpr(f) and has  *)
(* consumed the identifier only.                                            *)
C3_CallExpr ==
    (entry = "parse_primary" /\ Returned /\ Tok(1).kind = "Identifier")
    => /\ \A c \in CallCases :
             (c.mode = "commas" /\ Tail(tokens) = c.tail)
             => /\ ret = Ok(CallExpr(Tok(1).name, c.args))
                /\ pos = Len(tokens) - c.left
       /\ Tok(2).kind # "OpenParen"
             => /\ ret = Ok(VariableExpr(Tok(1).name))
                /\ pos = 1

\* f ( a , 1 ) ;  has been parsed to the call of f with [a, 1], the ';' left
C3_Witness ==
    /\ entry = "parse_primary" /\ Returned
    /\ tokens = CallTokens("f", <<VariableExpr("a"), NumberExpr(1)>>, "commas")
                   \o <<Semicolon>>
    /\ ret = Ok(CallExpr("f", <<VariableExpr("a"), NumberExpr(1)>>))
    /\ pos = 6

(* prototypes and definitions (C4) *)
\* the number of tokens the named entry point swallows before the prototype
KeywordTokens == IF entry \in {"parse_extern", "parse_definition"} THEN 1 ELSE 0

RECURSIVE ParamNames(_)
\* the names of the identifier tokens from the i-th token of the input on
ParamNames(i) ==
    IF Tok(i).kind = "Identifier" THEN <<Tok(i).name>> \o ParamNames(i + 1) ELSE <<>>

\* what parse_prototype fails with on a malformed prototype
PrototypeErrors ==
    LET k == KeywordTokens
        close == k + 3 + Len(ParamNames(k + 3))
    IN  (entry \in {"parse_prototype", "parse_extern", "parse_definition"} /\ Returned)
        => /\ Tok(k + 1).kind # "Identifier"
                 => ret = Err(ExpectedToken(Identifier("")))
           /\ (Tok(k + 1).kind = "Identifier" /\ Tok(k + 2).kind # "OpenParen")
                 => ret = Err(ExpectedToken(OpenParen))
           /\ (/\ Tok(k + 1).kind = "Identifier" /\ Tok(k + 2).kind = "OpenParen"
               /\ Tok(close).kind # "ClosedParen")
                 => ret = Err(ExpectedToken(ClosedParen))

\* the definitions of the inputs: what follows the keyword and the name,
\* the parameters and the body written there
DefCases ==
    {[tail |-> SubSeq(DefTokens("f", params, body), 3,
                      Len(DefTokens("f", params, body))),
      params |-> params, body |-> body] :
        params \in ParamLists, body \in ArgExprs}

(* C4 as stated: for the tokens  <keyword> name ( id1 ... idk ) <expression> *)
(* parse_definition returns Function{Prototype{name, [id1..idk]}, body},    *)
(* and parse_prototype fails with ExpectedToken(Identifier / OpenParen /    *)
(* ClosedParen) when the name, the '(' or the ')' is absent.                *)
C4_Definition ==
    /\ PrototypeErrors
    /\ (entry = "parse_definition" /\ Returned /\ Tok(2).kind = "Identifier")
       => \A c \in DefCases :
             SubSeq(tokens, 3, Len(tokens)) = c.tail
             => ret = Ok(Function(Prototype(Tok(2).name, c.params), c.body))

(* C4 amended: the definition is returned when a token that ends the body   *)
(* follows it, and that token is left; when the input ends with the body,   *)
(* parse_definition returns Err(UnexpectedEOI).  The prototype errors are   *)
(* as stated.                                                               *)
C4_DefinitionTerminated ==
    /\ PrototypeErrors
    /\ (entry = "parse_definition" /\ Returned /\ Tok(2).kind = "Identifier")
       => \A c \in DefCases :
             /\ (/\ SubSeq(tokens, 3, Len(tokens) - 1) = c.tail
                 /\ Terminates(tokens[Len(tokens) - 1], tokens[Len(tokens)]))
                => /\ ret = Ok(Function(Prototype(Tok(2).name, c.params), c.body))
                   /\ pos = Len(tokens) - 1
             /\ SubSeq(tokens, 3, Len(tokens)) = c.tail
                => ret = Err(UnexpectedEOI)

\* def f ( a b ) a + 1 ;  has been parsed to the function f(a b) = a + 1
C4_Witness ==
    /\ entry = "parse_definition" /\ Returned
    /\ tokens = DefTokens("f", <<"a", "b">>,
                          BinaryExpr("Plus", VariableExpr("a"), NumberExpr(1)))
                   \o <<Semicolon>>
    /\ ret = Ok(Function(Prototype("f", <<"a", "b">>),
                         BinaryExpr("Plus", VariableExpr("a"), NumberExpr(1))))

(* C5 as stated: when parse_paren_expr has parsed the inner expression and  *)
(* the token after it is not ')' (another token, or none), it fails with    *)
(* ExpectedToken(ClosedParen).                                              *)
ParenInnerParsed == Running("parse_paren_expr", "close") /\ ret.tag = "Ok"

C5_MissingParenExpected ==
    [][(ParenInnerParsed /\ Peek.kind # "ClosedParen")
          => ret' = Err(ExpectedToken(ClosedParen))]_vars

(* C5 amended: it fails with UnexpectedToken(the token found in place of    *)
(* ')'), which it has consumed, and never returns the inner tree; the end   *)
(* of the input never follows a successfully parsed inner expression.       *)
C5_MissingParenUnexpected ==
    [][(ParenInnerParsed /\ Peek.kind # "ClosedParen")
          => /\ Peek.kind # "None"
             /\ ret' = Err(UnexpectedToken(Peek))
             /\ pos' = pos + 1]_vars

\* ( a ;  has failed with UnexpectedToken(;) after the inner a was parsed
C5_Witness ==
    /\ entry = "parse_primary" /\ Returned
    /\ tokens = <<OpenParen, Identifier("a"), Semicolon>>
    /\ ret = Err(UnexpectedToken(Semicolon))
    /\ pos = 3

(* C6: once a call has returned an error, every enclosing call returns that *)
(* same error value and no further token is consumed.                       *)
C6_FirstErrorPropagates ==
    [][ret.tag = "Err" => (ret' = ret /\ pos' = pos)]_vars

(* C7: every entry point returns Ok or Err on every input: no run of the   *)
(* parser ends in a panic, and what a finished run delivers is a result.    *)
C7_ReturnsResult ==
    /\ status \in {"running", "returned"}
    /\ Returned => (stack = <<>> /\ ret.tag \in {"Ok", "Err"})

(* C8: when the next token is not a binary operator of the precedence table *)
(* (a non-operator token, or an operator the table has no entry for), the   *)
(* climbing loop returns Ok(the accumulated left-hand side), leaves the     *)
(* token unconsumed and does not panic.                                     *)
C8_ClimbStops ==
    [][(/\ Running("parse_binop_rhs", "loop")
        /\ Peek.kind # "None"
        /\ ~IsTableOperator(Peek))
          => /\ ret' = Ok(Top.lhs)
             /\ pos' = pos
             /\ status' \in {"running", "returned"}]_vars

(* C9: parse_expression, parse_definition and parse_top_level_expr return   *)
(* Ok only with at least one token left unconsumed; on an input that ends   *)
(* right after a complete expression they return Err(UnexpectedEOI).        *)
CompleteExpressions ==
    Chains(MaxOps) \cup {TokensOf(e) : e \in ArgExprs}
        \cup {CallTokens("f", args, mode) :
                 args \in ArgLists, mode \in {"commas", "trailing"}}

BareDefinitions ==
    {DefTokens("f", params, body) : params \in ParamLists, body \in ArgExprs}

C9_EndOfInput ==
    (entry \in {"parse_expression", "parse_definition", "parse_top_level_expr"}
        /\ Returned)
    => /\ ret.tag = "Ok" => pos < Len(tokens)
       /\ (entry # "parse_definition" /\ tokens \in CompleteExpressions)
             => (ret = Err(UnexpectedEOI) /\ pos = Len(tokens))
       /\ (entry = "parse_definition" /\ tokens \in BareDefinitions)
             => (ret = Err(UnexpectedEOI) /\ pos = Len(tokens))

\* 1 + a  and nothing after it has been refused with UnexpectedEOI
C9_Witness ==
    /\ entry = "parse_top_level_expr" /\ Returned
    /\ tokens = <<Number(1), Operator("Plus"), Identifier("a")>>
    /\ ret = Err(UnexpectedEOI)
    /\ pos = 3

(* C10: f(e1, ..., en), f(e1 ... en) and f(e1, ..., en,) parse to the same  *)
(* CallExpr(f, [e1..en]); without commas this is for arguments that stay    *)
(* apart (no argument that ends in an identifier is followed by one that    *)
(* begins with '('); the trailing comma is one that follows an argument.    *)
C10_CommasOptional ==
    (entry = "parse_primary" /\ Returned /\ Tok(1).kind = "Identifier")
    => \A c \in CallCases :
          (Tail(tokens) = c.tail /\ (c.mode = "none" => c.separable))
          => ret = Ok(CallExpr(Tok(1).name, c.args))

\* f ( a + 1 b )  has been parsed to the call of f with [a + 1, b]
C10_Witness ==
    /\ entry = "parse_primary" /\ Returned
    /\ tokens = CallTokens("f", <<BinaryExpr("Plus", VariableExpr("a"), NumberExpr(1)),
                                  VariableExpr("b")>>, "none")
    /\ ~(Comma \in {tokens[i] : i \in 1..Len(tokens)})
    /\ ret = Ok(CallExpr("f", <<BinaryExpr("Plus", VariableExpr("a"), NumberExpr(1)),
                                VariableExpr("b")>>))
====
